---------------------------- MODULE Spec2Model ----------------------------
(***************************************************************************)
(* A model of the gridsim simulation engine: World (world.py), Robot       *)
(* (robot.py), GridRobot (grid_robot.py), Message (message.py) and the     *)
(* concrete robot classes of the examples.                                 *)
(*                                                                         *)
(* Representation choices:                                                 *)
(*  - a grid position is the pair <<x, y>>;                                *)
(*  - the float returned by Robot.distance, sqrt(dx^2 + dy^2), is          *)
(*    represented by its radicand dx^2 + dy^2 (sqrt is strictly increasing *)
(*    on the naturals), so  d < c  reads  DistSq < c^2  and  d <= c  reads *)
(*    DistSq <= c^2;                                                       *)
(*  - the pygame sprite Group that holds the robots is a dict keyed by the *)
(*    sprite, iterated in insertion order: a sequence without duplicates;  *)
(*  - `calls` records the callbacks made by the most recent operation, in  *)
(*    call order; `op` and `result` record that operation and whether it   *)
(*    returned ("ok") or raised.                                           *)
(*  - a dict object is an index into `dicts`, so that two Message objects  *)
(*    can hold the same dict; `messages` holds the Message objects made.   *)
(***************************************************************************)
EXTENDS Integers, Sequences, FiniteSets, TLC

\* ------------------------------------------------------------------ bounds
GridWidth == 3
GridHeight == 2
MaxTick == 2
MaxInitCalls == 1
MaxEnvironments == 2
MaxRebinds == 2
MaxMessages == 3
IdBits == 2
MaxLogs == 2

\* --------------------------------------------------------- robot classes
Robots == {"r1", "r2", "r3", "r4"}

\* class of each robot object
KindOf == [r \in Robots |->
             CASE r = "r1" -> "RandomRobot"
               [] r = "r2" -> "TestRobot"
               [] r = "r3" -> "HubRobot"
               [] OTHER    -> "RandomRobot"]

\* the classes a class derives from, itself included
Bases(k) ==
  CASE k = "RandomRobot" -> {"RandomRobot", "GridRobot", "Robot"}
    [] k = "GridRobot"   -> {"GridRobot", "Robot"}
    [] k = "TestRobot"   -> {"TestRobot", "Robot"}
    [] k = "HubRobot"    -> {"HubRobot", "Robot"}
    [] OTHER             -> {"Robot"}

\* isinstance(r, t)
IsInstance(r, t) == t \in Bases(KindOf[r])

IsGridRobot(r) == IsInstance(r, "GridRobot")

\* GridRobot.DIRS
STAY == "stay"
UP == "up"
DOWN == "down"
LEFT == "left"
RIGHT == "right"
DIRS == {STAY, UP, DOWN, LEFT, RIGHT}

\* ---------------------------------------------------------------- inputs
Cells == (0 .. GridWidth - 1) \X (0 .. GridHeight - 1)

\* constructor positions Robot(x, y) of each robot: cells of the grid and,
\* for two of the robots, a cell outside it
StartCells(r) ==
  CASE r = "r1" -> {<<0, 0>>, <<GridWidth, 0>>}
    [] r = "r2" -> {<<GridWidth - 1, 0>>, <<0, -1>>}
    [] r = "r3" -> {<<1, 0>>}
    [] OTHER    -> {<<GridWidth - 1, GridHeight - 1>>}

\* targets a user-written move() may return: any cell, adjacent or not,
\* and cells outside the grid
Targets == {<<0, 0>>, <<GridWidth - 1, GridHeight - 1>>, <<GridWidth, 0>>}

\* tag(pos, color) arguments: two cells, a position left of the grid and
\* one right of it; a color, black, a triple that is no color, and None
TagPositions == {<<0, 0>>, <<GridWidth - 1, 0>>, <<-1, 0>>, <<GridWidth, 0>>}

\* None, where the program expects a tuple or returns one
NoneValue == <<>>

NoColor == <<>>

TagColors == {<<10, 20, 30>>, <<0, 0, 0>>, <<0, 0, 256>>, NoColor}

\* random.getrandbits(IdBits), and what stands for the id of a robot that
\* was not constructed
IdValues == 0 .. 2 ^ IdBits - 1

NoId == -1

\* ids that differ from robot to robot
IdOf(r) == CASE r = "r1" -> 0 [] r = "r2" -> 1 [] r = "r3" -> 2 [] OTHER -> 3

\* comm_range arguments of GridRobot(x, y, comm_range)
CommRanges == {1}

\* a comm_range that is larger than 1
WideRanges == {2}

\* ---------------------------------------------------------------- Message
\* Message() built as a message to every Robot
NullMessageBroadcast ==
  [is_null |-> FALSE, tx_id |-> "None", rx_type |-> "Robot", content |-> "{}"]

\* Message(): tx_id is None and content is empty
NullMessage ==
  [is_null |-> TRUE, tx_id |-> "None", rx_type |-> "None", content |-> "{}"]

\* Message(tx_id, content, rx_type) with non-empty content
Message(tx_id, content, rx_type) ==
  [is_null |-> FALSE, tx_id |-> tx_id, rx_type |-> rx_type, content |-> content]

\* Message.__bool__
MsgBool(m) == ~ m.is_null

\* receiver types the loop() of a robot of each class puts on its messages
RxTypesOf(r) ==
  CASE KindOf[r] = "RandomRobot" -> {"Robot"}
    [] KindOf[r] = "TestRobot"   -> {"GridRobot"}
    [] OTHER                     -> {}

\* the messages the loop() of robot r may hand to set_tx_message: a message
\* to each receiver type of its class and, for a TestRobot, Message() too
MessagesOf(r) ==
  {Message(r, "hello", t) : t \in RxTypesOf(r)} \cup
  (IF KindOf[r] = "TestRobot" THEN {NullMessage} ELSE {})

\* -------------------------------------------------------- Message objects
\* A dict is the set of its items; a key is a string or, is_str being
\* FALSE, a value of another type.
Item(key, is_str, value) == [key |-> key, is_str |-> is_str, value |-> value]

\* {}
EmptyDict == {}

\* the dict object that is the default of the parameter content of
\* Message.__init__: made once, when the def statement runs, and the first
\* of the dict objects
DefaultDict == 1

\* the dicts a caller writes out as content: {}, {"k": 1} and {7: 1}
DictLiterals == {EmptyDict, {Item("k", TRUE, 1)}, {Item("7", FALSE, 1)}}

\* tx_id arguments: None and the id of a robot
TxIds == {"None", "r1"}

\* rx_type arguments: Robot (also the default), a subclass of it, and a
\* class that is no Robot
RxTypeArgs == {"Robot", "GridRobot", "int"}

\* a key: a string or, is_str being FALSE, a value of another type
Key(key, is_str) == [key |-> key, is_str |-> is_str]

\* set(key, value) arguments: the keys "k" and 7
SetKeys == {Key("k", TRUE), Key("7", FALSE)}

SetValues == {1, 2}

\* the calls set(key, value) a program makes: a string key with each value,
\* another key with one
SetArgs ==
  {<<k, v>> \in SetKeys \X SetValues : k.is_str \/ v = 1}

\* issubclass(t, Robot)
IsSubclassOfRobot(t) ==
  t \in {"Robot", "GridRobot", "RandomRobot", "TestRobot", "HubRobot"}

\* a content argument: omitted (the parameter then names the default dict
\* object), a new dict object with the items init, the dict object ref
\* that the caller passed before, or a value that is no dict, truthy or not
ContentArg(kind, ref, init, truthy) ==
  [kind |-> kind, ref |-> ref, init |-> init, truthy |-> truthy]

\* the dict objects callers have passed as content
CallerDicts(msgs) == {msgs[i].arg : i \in DOMAIN msgs} \ {0}

ContentArgs(msgs) ==
  {ContentArg("omitted", DefaultDict, EmptyDict, FALSE)} \cup
  {ContentArg("new", 0, c, FALSE) : c \in DictLiterals} \cup
  {ContentArg("same", d, EmptyDict, FALSE) : d \in CallerDicts(msgs)} \cup
  {ContentArg("other", 0, EmptyDict, b) : b \in BOOLEAN}

\* isinstance(content, Dict)
IsDict(c) == c.kind # "other"

\* the items of a content argument that is a dict
ItemsOf(heap, c) ==
  CASE c.kind = "new"   -> c.init
    [] c.kind = "other" -> EmptyDict
    [] OTHER            -> heap[c.ref]

\* bool(content)
Truthy(heap, c) ==
  IF IsDict(c) THEN ItemsOf(heap, c) # EmptyDict ELSE c.truthy

\* all(map(lambda k: isinstance(k, str), content.keys()))
AllStrKeys(items) == \A e \in items : e.is_str

\* a Message object: _content is a reference to a dict object; arg is the
\* dict object the caller passed as content, 0 if the caller passed none
MessageObject(is_null, tx_id, rx_type, content, arg) ==
  [is_null |-> is_null, tx_id |-> tx_id, rx_type |-> rx_type,
   content |-> content, arg |-> arg]

\* Message.__init__: the Message objects and the dict objects it leaves,
\* and whether it returned or raised
MessageInit(msgs, heap, tx_id, c, rx_type) ==
  IF tx_id = "None" /\ ~ Truthy(heap, c)
  THEN [result |-> "ok",
        messages |-> Append(msgs, MessageObject(TRUE, "None", "None",
                                  Len(heap) + 1,
                                  IF c.kind = "same" THEN c.ref ELSE 0)),
        dicts |-> Append(heap, EmptyDict)]
  ELSE IF ~ IsSubclassOfRobot(rx_type)
       THEN [result |-> "TypeError", messages |-> msgs, dicts |-> heap]
       ELSE IF ~ IsDict(c) \/ ~ AllStrKeys(ItemsOf(heap, c))
            THEN [result |-> "TypeError", messages |-> msgs, dicts |-> heap]
            ELSE LET heap1 == IF c.kind = "new" THEN Append(heap, c.init)
                              ELSE heap
                     ref == IF c.kind = "new" THEN Len(heap1) ELSE c.ref
                 IN [result |-> "ok",
                     messages |-> Append(msgs, MessageObject(FALSE, tx_id,
                                    rx_type, ref,
                                    IF c.kind = "omitted" THEN 0 ELSE ref)),
                     dicts |-> heap1]

\* Message.get()
MessageGet(msgs, heap, m) == heap[msgs[m].content]

\* Message.sender
Sender(msgs, m) == msgs[m].tx_id

\* d[key] = value
DictSet(d, key, value) ==
  {e \in d : ~ (e.is_str = key.is_str /\ e.key = key.key)} \cup
  {Item(key.key, key.is_str, value)}

\* Message.set without its test for a null message
MessageSetEffectNoNullTest(msgs, heap, m, key, value) ==
  [result |-> "ok",
   dicts |-> [heap EXCEPT ![msgs[m].content] = DictSet(@, key, value)]]

\* Message.set: the dict objects it leaves, and whether it returned or
\* raised
MessageSetEffect(msgs, heap, m, key, value) ==
  IF ~ MsgBool(msgs[m])
  THEN [result |-> "ValueError", dicts |-> heap]
  ELSE [result |-> "ok",
        dicts |-> [heap EXCEPT ![msgs[m].content] = DictSet(@, key, value)]]

VARIABLES
  constructed,        \* the Robot objects the program has constructed
  pos,                \* Robot._x, Robot._y
  arena_dim,          \* Robot._arena_dim
  is_in_world,        \* Robot._is_in_world
  tick,               \* Robot._tick
  tx_message,         \* Robot._tx_message
  environment,        \* Robot._environment
  init_calls,         \* number of init() calls made on the robot
  comm_range,         \* GridRobot._comm_range
  move_cmd,           \* GridRobot._move_cmd
  world_robots,       \* World._robots
  world_tick,         \* World._tick
  world_environment,  \* World._environment
  tagged_pos,         \* World._tagged_pos
  op,                 \* the most recent operation and the robot it was given
  result,             \* "ok", or the exception it raised
  calls,              \* callbacks made by the most recent operation
  add_raised,         \* whether some add_robot call has raised
  returned,           \* what the most recent Robot.sample call returned
  messages,           \* the Message objects constructed, in order
  dicts,              \* the dict objects that hold message contents
  allow_collisions,   \* World._allow_collisions
  last_tag,           \* per cell: the last tag call on it had a color
  payload,            \* content of the Message object in Robot._tx_message
  other_robots,       \* _robots of a second World
  robot_color,        \* Robot._color
  id,                 \* Robot.id
  log_file,           \* Logger._log_file: the datasets of the trial
  aggregators,        \* Logger._aggregators, in insertion order
  params              \* Logger._log_file: the keys of the params group

vars == <<constructed, pos, arena_dim, is_in_world, tick, tx_message, environment,
          init_calls, comm_range, move_cmd, world_robots, world_tick,
          world_environment, tagged_pos, op, result, calls, add_raised,
          returned, messages, dicts, allow_collisions, last_tag, payload,
          other_robots, robot_color, id, log_file, aggregators, params>>

logger_vars == <<log_file, aggregators, params>>

\* what no operation on the one World, its robots and Message objects
\* touches
ext_vars == <<other_robots, robot_color, id, logger_vars>>

robot_vars == <<constructed, pos, arena_dim, is_in_world, tick, tx_message, environment,
                init_calls, comm_range, move_cmd>>

message_vars == <<messages, dicts>>


\* ------------------------------------------------------------ environment
\* identity of an Environment object: OwnEnvironment is the Environment()
\* a Robot creates for itself in __init__, 0 the one World.__init__ creates,
\* k > 0 the ImageEnvironment made by the k-th add_environment call
OwnEnvironment == -1

\* what Robot.sample stands at when the call raised instead of returning
NoReturn == <<-1>>

\* Environment.get
NullEnvironmentGet(p) == <<0, 0, 0>>

\* the pixel at p of the image of the e-th ImageEnvironment, scaled to the
\* grid: every pixel of every image has a color of its own
GetPixel(e, p) == <<100 + p[1], 100 + p[2], e>>

\* ImageEnvironment.get reading the pixel of row p[1] and column p[2]
ImageEnvironmentGetTransposed(e, p) ==
  IF (0 <= p[1] /\ p[1] < GridWidth) /\ (0 <= p[2] /\ p[2] < GridHeight)
  THEN GetPixel(e, <<p[2], p[1]>>)
  ELSE NoneValue

\* ImageEnvironment.get, observation_std being 0
ImageEnvironmentGet(e, p) ==
  IF (0 <= p[1] /\ p[1] < GridWidth) /\ (0 <= p[2] /\ p[2] < GridHeight)
  THEN GetPixel(e, p)
  ELSE NoneValue

\* get of the Environment object e
EnvironmentGet(e, p) ==
  IF e > 0 THEN ImageEnvironmentGet(e, p) ELSE NullEnvironmentGet(p)

\* ------------------------------------------------------------------ Robot
\* Robot.get_pos
GetPos(S, r) == S.pos[r]

\* Robot._is_in_bounds with the upper ends of the ranges included
IsInBoundsInclusive(p, dim) ==
  /\ 0 <= p[1] /\ p[1] <= dim[1]
  /\ 0 <= p[2] /\ p[2] <= dim[2]

\* Robot._is_in_bounds, for a robot at p that was told the dimensions dim
IsInBounds(p, dim) ==
  /\ 0 <= p[1] /\ p[1] < dim[1]
  /\ 0 <= p[2] /\ p[2] < dim[2]

\* Robot.distance: the radicand of the Euclidean distance from p to q
Distance(p, q) ==
  (p[1] - q[1]) * (p[1] - q[1]) + (p[2] - q[2]) * (p[2] - q[2])

\* the radicand that stands for the float c
Sq(c) == c * c

\* comm_criteria(dist) of each class, on the radicand dsq of dist:
\*   GridRobot:  dist_sqr <= self._comm_range**2, called with dist
\*   TestRobot:  dist < 5
\*   HubRobot:   dist_sqr < 5**2, called with dist
CommCriteria(r, range, dsq) ==
  CASE IsGridRobot(r)          -> dsq <= Sq(Sq(range[r]))
    [] KindOf[r] = "TestRobot" -> dsq < Sq(5)
    [] OTHER                   -> dsq < Sq(Sq(5))

\* Robot.set_tx_message
SetTxMessage(S, r, msg) == [S EXCEPT !.tx_message[r] = msg]

\* Robot.get_tx_message
GetTxMessage(S, r) == S.tx_message[r]

\* GridRobot.set_direction with a direction of GridRobot.DIRS
SetDirection(S, r, dir) ==
  IF dir \in DIRS THEN [S EXCEPT !.move_cmd[r] = dir] ELSE S

\* GridRobot.move with UP increasing y and DOWN decreasing it
GridMoveUpIncreases(S, r) ==
  LET x == GetPos(S, r)[1]
      y == GetPos(S, r)[2]
      cmd == S.move_cmd[r]
  IN CASE cmd = UP    -> <<x, y + 1>>
       [] cmd = DOWN  -> <<x, y - 1>>
       [] cmd = RIGHT -> <<x + 1, y>>
       [] cmd = LEFT  -> <<x - 1, y>>
       [] OTHER       -> <<x, y>>

\* GridRobot.move
GridMove(S, r) ==
  LET x == GetPos(S, r)[1]
      y == GetPos(S, r)[2]
      cmd == S.move_cmd[r]
  IN CASE cmd = UP    -> <<x, y - 1>>
       [] cmd = DOWN  -> <<x, y + 1>>
       [] cmd = RIGHT -> <<x + 1, y>>
       [] cmd = LEFT  -> <<x - 1, y>>
       [] OTHER       -> <<x, y>>

\* what the callbacks that the class of r supplies decide in one tick, r
\* being at p: whether loop() calls set_tx_message and with what, whether
\* it calls set_direction and with what, and the cell that a move() of
\* the class's own returns (a TestRobot asks for any cell, a HubRobot for
\* the cell it is on; GridRobot.move takes no decision)
LoopChoices(r, p) ==
  LET msgs == {[set_msg |-> FALSE, msg |-> NullMessage]} \cup
              {[set_msg |-> TRUE, msg |-> m] : m \in MessagesOf(r)}
      dirs == IF IsGridRobot(r)
              THEN {[set_dir |-> FALSE, dir |-> STAY]} \cup
                   {[set_dir |-> TRUE, dir |-> d] : d \in DIRS}
              ELSE {[set_dir |-> FALSE, dir |-> STAY]}
      tgts == IF KindOf[r] = "TestRobot" THEN Targets ELSE {p}
  IN {[set_msg |-> m.set_msg, msg |-> m.msg,
       set_dir |-> d.set_dir, dir |-> d.dir, target |-> t,
       raises |-> FALSE] :
        m \in msgs, d \in dirs, t \in tgts}

\* a loop() that does nothing, r being at p
Idle(p) ==
  [set_msg |-> FALSE, msg |-> NullMessage, set_dir |-> FALSE, dir |-> STAY,
   target |-> p, raises |-> FALSE]

\* an object that is truthy and whose _rx_type is no class, as
\* set_tx_message takes it
MalformedMessage(r) == Message(r, "hello", "NotAClass")

\* what the callbacks of r may also do in one tick: a loop() that raises,
\* and a loop() that hands set_tx_message a malformed message
FaultyChoices(r, p) ==
  LoopChoices(r, p) \cup
  {[Idle(p) EXCEPT !.raises = TRUE],
   [Idle(p) EXCEPT !.set_msg = TRUE, !.msg = MalformedMessage(r)]}

\* Robot.loop as the subclasses write it
Loop(S, r, c) ==
  LET S1 == IF c.set_dir THEN SetDirection(S, r, c.dir) ELSE S
  IN IF c.set_msg THEN SetTxMessage(S1, r, c.msg) ELSE S1

\* Robot.move: GridRobot.move, or the subclass's own
Move(S, r, c) == IF IsGridRobot(r) THEN GridMove(S, r) ELSE c.target

\* Robot._move without the two tests against 0
CommitMoveNoLowerBound(S, r, dim, new_pos) ==
  IF /\ new_pos[1] < dim[r][1]
     /\ new_pos[2] < dim[r][2]
  THEN [S EXCEPT !.pos[r] = new_pos]
  ELSE S

\* the nearest of 0 .. n - 1 to i
Clamp(i, n) == IF i < 0 THEN 0 ELSE IF i >= n THEN n - 1 ELSE i

\* Robot._move moving the robot to the cell of the arena nearest to new_pos
CommitMoveClamp(S, r, dim, new_pos) ==
  [S EXCEPT !.pos[r] = <<Clamp(new_pos[1], dim[r][1]),
                         Clamp(new_pos[2], dim[r][2])>>]

\* Robot._move
CommitMove(S, r, dim, new_pos) ==
  IF /\ new_pos[1] < dim[r][1]
     /\ new_pos[2] < dim[r][2]
     /\ new_pos[1] >= 0
     /\ new_pos[2] >= 0
  THEN [S EXCEPT !.pos[r] = new_pos]
  ELSE S

\* ------------------------------------------------------------ call records
\* A record of the log: the callback fn of robot, the other robot of the
\* pair (peer), and the arguments. A record with fn "raise" stands for the
\* exception, named in peer, that ended the operation.
NoPos == <<-9, -9>>

Call(fn, robot, peer, msg, dist, p) ==
  [fn |-> fn, robot |-> robot, peer |-> peer, msg |-> msg, dist |-> dist,
   pos |-> p]

\* r.init()
InitCall(r) == Call("init", r, "None", NullMessage, -1, NoPos)

\* r.loop()
LoopCall(r) == Call("loop", r, "None", NullMessage, -1, NoPos)

\* r.move(), which returned new_pos
MoveCall(r, new_pos) == Call("move", r, "None", NullMessage, -1, new_pos)

\* r._move(new_pos)
CommitMoveCall(r, new_pos) == Call("_move", r, "None", NullMessage, -1, new_pos)

\* r.comm_criteria(dist), r being the sender or the receiver of a pair and
\* peer the other robot of it
CriteriaCall(r, peer, dist) ==
  Call("comm_criteria", r, peer, NullMessage, dist, NoPos)

\* rx.receive_msg(msg, dist), msg being the message of tx
ReceiveCall(rx, tx, msg, dist) == Call("receive_msg", rx, tx, msg, dist, NoPos)

\* tx.msg_received(), rx having received
AckCall(tx, rx) == Call("msg_received", tx, rx, NullMessage, -1, NoPos)

\* the exception exc, raised in a callback of r or while the World handles
\* the message of r
RaiseCall(r, exc) == Call("raise", r, exc, NullMessage, -1, NoPos)

\* whether the calls of the log ended with an exception
Raised(log) == Len(log) > 0 /\ log[Len(log)].fn = "raise"

\* whether t is a class: a Robot class or another
IsClass(t) == IsSubclassOfRobot(t) \/ t = "int"

\* Robot.update asking move() for the target before it runs the controller
UpdateMoveFirst(S, r, dim, c) ==
  LET new_pos == Move(S, r, c)
      S1 == Loop(S, r, c)
      S2 == CommitMove(S1, r, dim, new_pos)
      S3 == [S2 EXCEPT !.tick[r] = @ + 1]
  IN [S |-> S3,
      calls |-> <<MoveCall(r, new_pos), LoopCall(r), CommitMoveCall(r, new_pos)>>]

\* Robot.update: the controller, the move request, the move, the tick.
\* Returns the robots' state and the calls made. An exception that loop()
\* raises ends the update after the controller.
Update(S, r, dim, c) ==
  LET S1 == Loop(S, r, c)
      new_pos == Move(S1, r, c)
      S2 == CommitMove(S1, r, dim, new_pos)
      S3 == [S2 EXCEPT !.tick[r] = @ + 1]
  IN IF c.raises
     THEN [S |-> S1, calls |-> <<LoopCall(r), RaiseCall(r, "Exception")>>]
     ELSE [S |-> S3,
           calls |-> <<LoopCall(r), MoveCall(r, new_pos),
                       CommitMoveCall(r, new_pos)>>]

\* Group.update: Robot.update on each robot of the group from the i-th on,
\* in group order, after the calls made so far; an exception ends it
RECURSIVE UpdateAll(_, _, _, _, _, _)
UpdateAll(S, made, group, dim, ch, i) ==
  IF i > Len(group) \/ Raised(made) THEN [S |-> S, calls |-> made]
  ELSE LET u == Update(S, group[i], dim, ch[group[i]])
       IN UpdateAll(u.S, made \o u.calls, group, dim, ch, i + 1)

\* World._communicate asking only the transmitter's comm_criteria
CommunicatePairTxOnly(S, range, tx, rx, msg) ==
  IF tx # rx /\ IsInstance(rx, msg.rx_type)
  THEN LET dist == Distance(GetPos(S, tx), GetPos(S, rx))
       IN IF CommCriteria(tx, range, dist)
          THEN <<CriteriaCall(tx, rx, dist),
                 ReceiveCall(rx, tx, msg, dist), AckCall(tx, rx)>>
          ELSE <<CriteriaCall(tx, rx, dist)>>
  ELSE <<>>

\* World._communicate without the test that the receiver is another robot
CommunicatePairSelf(S, range, tx, rx, msg) ==
  IF IsInstance(rx, msg.rx_type)
  THEN LET dist == Distance(GetPos(S, tx), GetPos(S, rx))
       IN IF CommCriteria(tx, range, dist)
          THEN IF CommCriteria(rx, range, dist)
               THEN <<CriteriaCall(tx, rx, dist), CriteriaCall(rx, tx, dist),
                      ReceiveCall(rx, tx, msg, dist), AckCall(tx, rx)>>
               ELSE <<CriteriaCall(tx, rx, dist), CriteriaCall(rx, tx, dist)>>
          ELSE <<CriteriaCall(tx, rx, dist)>>
  ELSE <<>>

\* World._communicate telling the sender as soon as its own criterion holds
CommunicatePairEarlyAck(S, range, tx, rx, msg) ==
  IF tx # rx /\ IsInstance(rx, msg.rx_type)
  THEN LET dist == Distance(GetPos(S, tx), GetPos(S, rx))
       IN IF CommCriteria(tx, range, dist)
          THEN IF CommCriteria(rx, range, dist)
               THEN <<CriteriaCall(tx, rx, dist), AckCall(tx, rx),
                      CriteriaCall(rx, tx, dist),
                      ReceiveCall(rx, tx, msg, dist)>>
               ELSE <<CriteriaCall(tx, rx, dist), AckCall(tx, rx),
                      CriteriaCall(rx, tx, dist)>>
          ELSE <<CriteriaCall(tx, rx, dist)>>
  ELSE <<>>

\* World._communicate, body of the inner loop for one (tx_r, rx_r);
\* isinstance raises TypeError when its second argument is no class
CommunicatePair(S, range, tx, rx, msg) ==
  IF tx # rx /\ ~ IsClass(msg.rx_type)
  THEN <<RaiseCall(tx, "TypeError")>>
  ELSE
  IF tx # rx /\ IsInstance(rx, msg.rx_type)
  THEN LET dist == Distance(GetPos(S, tx), GetPos(S, rx))
       IN IF CommCriteria(tx, range, dist)
          THEN IF CommCriteria(rx, range, dist)
               THEN <<CriteriaCall(tx, rx, dist), CriteriaCall(rx, tx, dist),
                      ReceiveCall(rx, tx, msg, dist), AckCall(tx, rx)>>
               ELSE <<CriteriaCall(tx, rx, dist), CriteriaCall(rx, tx, dist)>>
          ELSE <<CriteriaCall(tx, rx, dist)>>
  ELSE <<>>

\* World._communicate, the inner loop over the receivers; an exception
\* ends it
RECURSIVE CommunicateFrom(_, _, _, _, _, _)
CommunicateFrom(S, range, group, tx, msg, j) ==
  IF j > Len(group) THEN <<>>
  ELSE LET made == CommunicatePair(S, range, tx, group[j], msg)
       IN IF Raised(made) THEN made
          ELSE made \o CommunicateFrom(S, range, group, tx, msg, j + 1)

\* World._communicate, the outer loop over the transmitters; an exception
\* ends it
RECURSIVE Communicate(_, _, _, _)
Communicate(S, range, group, i) ==
  IF i > Len(group) THEN <<>>
  ELSE LET tx == group[i]
           msg == GetTxMessage(S, tx)
           made == IF MsgBool(msg)
                   THEN CommunicateFrom(S, range, group, tx, msg, 1)
                   ELSE <<>>
       IN IF Raised(made) THEN made
          ELSE made \o Communicate(S, range, group, i + 1)

\* World.step communicating before it updates the robots
StepBodyCommFirst(S, group, dim, range, ch) ==
  LET u == UpdateAll(S, <<>>, group, dim, ch, 1)
  IN [S |-> u.S, calls |-> Communicate(S, range, group, 1) \o u.calls]

\* World.step communicating once the first robot of the group is updated
StepBodyCommEarly(S, group, dim, range, ch) ==
  LET u == UpdateAll(S, <<>>, group, dim, ch, 1)
      first == UpdateAll(S, <<>>, SubSeq(group, 1, 1), dim, ch, 1)
  IN IF Raised(u.calls) THEN u
     ELSE [S |-> u.S,
           calls |-> u.calls \o Communicate(first.S, range, group, 1)]

\* World.step emptying the outgoing slot of every robot once it has
\* communicated
StepBodyClearSlots(S, group, dim, range, ch) ==
  LET u == UpdateAll(S, <<>>, group, dim, ch, 1)
      cleared == [u.S EXCEPT !.tx_message =
                    [r \in Robots |-> IF \E i \in 1 .. Len(group) : group[i] = r
                                      THEN NullMessage ELSE @[r]]]
  IN IF Raised(u.calls) THEN u
     ELSE [S |-> cleared,
           calls |-> u.calls \o Communicate(u.S, range, group, 1)]

\* World.step, lines 78 and 79: the update of every robot, then the
\* communication of every pair. The robots' state and the calls made. An
\* exception in the updates leaves the communication out.
StepBody(S, group, dim, range, ch) ==
  LET u == UpdateAll(S, <<>>, group, dim, ch, 1)
  IN IF Raised(u.calls) THEN u
     ELSE [S |-> u.S, calls |-> u.calls \o Communicate(u.S, range, group, 1)]

\* World.step without the increment
NextTickSame(t) == t

\* World.step, line 80
NextTick(t) == t + 1

\* ------------------------------------------------------------------ World
\* an operation of the World and the robot it was called with
Op(name, robot) == [name |-> name, robot |-> robot]

\* an operation called with a position and a color
OpAt(name, robot, p, color) ==
  [name |-> name, robot |-> robot, pos |-> p, color |-> color]

SeqToSet(s) == {s[i] : i \in 1 .. Len(s)}

\* the orders in which the group may hand out its robots
Orders(group) ==
  {g \in [1 .. Len(group) -> SeqToSet(group)] :
     \A i \in 1 .. Len(group), j \in 1 .. Len(group) : g[i] = g[j] => i = j}

\* the deliveries among the calls of log: sender, receiver, message and
\* distance of each receive_msg call
DeliveriesOf(log) ==
  {<<log[i].peer, log[i].robot, log[i].msg, log[i].dist>> :
     i \in {j \in DOMAIN log : log[j].fn = "receive_msg"}}

\* World.get_time
GetTime == world_tick

\* World.get_robots
GetRobots == SeqToSet(world_robots)

\* World.get_dimensions
GetDimensions == <<GridWidth, GridHeight>>

\* World.get_environment
GetEnvironment == world_environment

Untagged == <<0, 0, 0, 0>>

\* Logger._trial_group_name, for trial 1
TrialGroupName == "trial_1"

\* os.path.join(Logger._trial_group_name, name)
TrialPath(name) == TrialGroupName \o "/" \o name

\* Logger._params_group_name
ParamsGroupName == TrialPath("params")

\* Logger._time_dset_name
TimeDsetName == TrialPath("time")

\* Logger._reserved_names
ReservedNames == {ParamsGroupName, TrialPath("system_info"), TimeDsetName}

\* the groups Logger._set_trial creates in the log file
GroupNames == {TrialGroupName, ParamsGroupName}

\* the World and the robots as their constructors leave them, the
\* GridRobots being given a comm_range of ranges and the World an
\* allow_collisions of flags
ConstructedAny(robots, ranges, flags) ==
  /\ constructed = robots
  /\ pos \in [Robots -> {NoPos} \cup UNION {StartCells(r) : r \in Robots}]
  /\ \A r \in Robots :
       IF r \in robots THEN pos[r] \in StartCells(r) ELSE pos[r] = NoPos
  /\ arena_dim = [r \in Robots |-> <<0, 0>>]
  /\ is_in_world = [r \in Robots |-> FALSE]
  /\ tick = [r \in Robots |-> 0]
  /\ tx_message = [r \in Robots |-> NullMessage]
  /\ environment = [r \in Robots |-> OwnEnvironment]
  /\ init_calls = [r \in Robots |-> 0]
  /\ comm_range \in [Robots -> ranges \cup {0}]
  /\ \A r \in Robots : comm_range[r] = 0 <=> ~ (IsGridRobot(r) /\ r \in robots)
  /\ move_cmd = [r \in Robots |-> IF IsGridRobot(r) THEN STAY ELSE "None"]
  /\ world_robots = <<>>
  /\ world_tick = 0
  /\ world_environment = 0
  /\ tagged_pos = [c \in Cells |-> Untagged]
  /\ op = Op("World", "None")
  /\ result = "ok"
  /\ calls = <<>>
  /\ add_raised = FALSE
  /\ returned = NoReturn
  /\ messages = <<>>
  /\ dicts = <<EmptyDict>>
  /\ allow_collisions \in flags
  /\ last_tag = [c \in Cells |-> FALSE]
  /\ payload = [r \in Robots |-> EmptyDict]
  /\ other_robots = <<>>
  /\ robot_color = [r \in Robots |-> <<255, 255, 255>>]
  /\ log_file = [n \in {TimeDsetName} |-> <<>>]
  /\ aggregators = <<>>
  /\ params = {}

\* the same, random.getrandbits having given every robot an id of its own
ConstructedWith(robots, ranges, flags) ==
  /\ ConstructedAny(robots, ranges, flags)
  /\ id = [r \in Robots |-> IF r \in robots THEN IdOf(r) ELSE NoId]

\* the World and the robots as their constructors leave them, with the
\* default of allow_collisions
Constructed(robots) == ConstructedWith(robots, CommRanges, {TRUE})

\* World(GridWidth, GridHeight) and one robot of each class
Init == Constructed({"r1", "r2", "r3"})

\* World(GridWidth, GridHeight) and one GridRobot
InitWorld == Constructed({"r1"})

\* World(GridWidth, GridHeight), one GridRobot and one HubRobot
InitBind == Constructed({"r1", "r3"})

\* World(GridWidth, GridHeight, allow_collisions=...) and two GridRobots
\* of a wide range
InitGrid == ConstructedWith({"r1", "r4"}, WideRanges, BOOLEAN)

\* World(GridWidth, GridHeight), a GridRobot and a TestRobot
InitSlot == Constructed({"r1", "r2"})

\* World(GridWidth, GridHeight), two GridRobots of a wide range and a
\* HubRobot
InitShare == ConstructedWith({"r1", "r3", "r4"}, WideRanges, {TRUE})

\* World(GridWidth, GridHeight) and two GridRobots
InitFault == Constructed({"r1", "r4"})

\* World(GridWidth, GridHeight) and no robot
InitMessage == Constructed({})

\* the choices open to the callbacks of r in one step: those of its class
\* when the World updates r, one fixed value, never read, when it does not
StepChoices(r) ==
  IF r \in GetRobots THEN LoopChoices(r, pos[r]) ELSE {Idle(pos[r])}

\* the same, with callbacks that may fail
StepChoicesFaulty(r) ==
  IF r \in GetRobots THEN FaultyChoices(r, pos[r]) ELSE {Idle(pos[r])}

\* the dict that loop() builds a message of msg's content with
ContentOf(msg) ==
  IF msg.is_null \/ msg.content = "{}" THEN EmptyDict
  ELSE {Item("test", TRUE, 1)}

\* the contents of the outgoing messages once the robots are updated: the
\* loop() that calls set_tx_message puts a new Message object in the slot
PayloadAfterLoops(P, ch, log) ==
  [r \in Robots |->
     IF ch[r].set_msg /\ \E i \in DOMAIN log :
                           log[i].fn = "loop" /\ log[i].robot = r
     THEN ContentOf(ch[r].msg) ELSE P[r]]

\* the receive_msg calls of log from the i-th on, the receive_msg of the
\* robots of mut calling msg.set("test", 2) on the message it is handed,
\* which is the object in the sender's slot (world.py:150, 158): the
\* contents it leaves and what each call was handed
RECURSIVE ReceiveAll(_, _, _, _, _)
ReceiveAll(P, seen, log, mut, i) ==
  IF i > Len(log) THEN [payload |-> P, observed |-> seen]
  ELSE IF log[i].fn # "receive_msg"
       THEN ReceiveAll(P, seen, log, mut, i + 1)
       ELSE LET tx == log[i].peer
                rx == log[i].robot
                P1 == IF rx \in mut
                      THEN [P EXCEPT ![tx] = DictSet(@, Key("test", TRUE), 2)]
                      ELSE P
            IN ReceiveAll(P1,
                          Append(seen, [rx |-> rx, tx |-> tx,
                                        content |-> P[tx]]),
                          log, mut, i + 1)

\* World.step, the callbacks of each robot r doing one of choices[r] and
\* the receive_msg of the robots of one set of mutators modifying the
\* message it is handed; an
\* exception that a callback or the World raises reaches the caller of
\* step, which then has not counted the tick (the robots updated before it
\* have counted theirs). With record, the operation names the robots whose
\* loop() called set_tx_message, the mutators, and what each receive_msg
\* call was handed.
StepOn(choices, record, mutators) ==
  /\ world_tick < MaxTick
  /\ \A r \in GetRobots : tick[r] < MaxTick
  /\ \E c1 \in choices["r1"], c2 \in choices["r2"],
        c3 \in choices["r3"], c4 \in choices["r4"] :
       LET ch == [r \in Robots |->
                    CASE r = "r1" -> c1 [] r = "r2" -> c2
                      [] r = "r3" -> c3 [] OTHER -> c4]
           S == [pos |-> pos, tick |-> tick, tx_message |-> tx_message,
                 move_cmd |-> move_cmd]
       IN \E w \in {StepBody(S, world_robots, arena_dim, comm_range, ch)} :
            /\ pos' = w.S.pos
            /\ tick' = w.S.tick
            /\ tx_message' = w.S.tx_message
            /\ move_cmd' = w.S.move_cmd
            /\ calls' = w.calls
            /\ world_tick' = IF Raised(w.calls) THEN world_tick
                             ELSE NextTick(world_tick)
            /\ result' = IF Raised(w.calls)
                         THEN w.calls[Len(w.calls)].peer ELSE "ok"
            /\ \E mut \in mutators :
                 \E rcv \in {IF record \/ mut # {}
                             THEN ReceiveAll(
                                    PayloadAfterLoops(payload, ch, w.calls),
                                    <<>>, w.calls, mut, 1)
                             ELSE [payload |->
                                     PayloadAfterLoops(payload, ch, w.calls),
                                   observed |-> <<>>]} :
                   /\ payload' = rcv.payload
                   /\ op' = IF record
                            THEN [name |-> "step", robot |-> "None",
                                  set_msg |-> {r \in GetRobots : ch[r].set_msg},
                                  mutators |-> mut,
                                  observed |-> rcv.observed]
                            ELSE Op("step", "None")
  /\ UNCHANGED <<constructed, arena_dim, is_in_world, environment, init_calls, comm_range,
                 world_robots, world_environment, tagged_pos, add_raised,
                 returned, message_vars, allow_collisions, last_tag,
                 ext_vars>>

\* World.step with callbacks that return
Step == StepOn([r \in Robots |-> StepChoices(r)], FALSE, {{}})

\* World.step, the calls of set_tx_message recorded
StepRecorded == StepOn([r \in Robots |-> StepChoices(r)], TRUE, {{}})

\* the robots whose receive_msg may modify the message it is handed
Mutators == {"r3", "r4"}

\* the choices of StepChoices(r) in which loop() leaves the direction
StepChoicesStill(r) == {c \in StepChoices(r) : ~ c.set_dir}

\* World.step with receive_msg callbacks that may modify the message
StepShared ==
  StepOn([r \in Robots |-> StepChoicesStill(r)], TRUE, SUBSET Mutators)

\* World.step with callbacks that may fail
StepFaulty == StepOn([r \in Robots |-> StepChoicesFaulty(r)], FALSE, {{}})

\* Group.add appending the sprite whether or not the group has it
GroupAddAgain(group, r) == Append(group, r)

\* Group.add: a group holds a sprite once
GroupAdd(group, r) ==
  IF r \in SeqToSet(group) THEN group ELSE Append(group, r)

\* World.add_robot, with Robot.add_to_world, on a robot that init() was
\* called on fewer than n times
AddRobotUpTo(r, n) ==
  /\ r \in constructed
  /\ init_calls[r] < n
  /\ world_robots' = GroupAdd(world_robots, r)
  /\ arena_dim' = [arena_dim EXCEPT ![r] = <<GridWidth, GridHeight>>]
  /\ is_in_world' = [is_in_world EXCEPT ![r] = TRUE]
  /\ op' = Op("add_robot", r)
  /\ IF ~ IsInBounds(pos[r], arena_dim'[r])
     THEN /\ result' = "ValueError"
          /\ calls' = <<>>
          /\ add_raised' = TRUE
          /\ UNCHANGED <<environment, init_calls>>
     ELSE /\ environment' = [environment EXCEPT ![r] = GetEnvironment]
          /\ init_calls' = [init_calls EXCEPT ![r] = @ + 1]
          /\ calls' = <<InitCall(r)>>
          /\ result' = "ok"
          /\ UNCHANGED add_raised
  /\ UNCHANGED <<constructed, pos, tick, tx_message, comm_range, move_cmd, world_tick,
                 world_environment, tagged_pos, returned, message_vars,
                 allow_collisions, last_tag,
                 payload, ext_vars>>

\* get_dimensions of a second World, World(GridHeight, GridWidth)
OtherDimensions == <<GridHeight, GridWidth>>

\* add_robot of the second World, with Robot.add_to_world, on a robot that
\* init() was called on fewer than MaxRebinds times; the second World has
\* the null Environment
AddRobotOther(r) ==
  /\ r \in constructed
  /\ init_calls[r] < MaxRebinds
  /\ other_robots' = GroupAdd(other_robots, r)
  /\ arena_dim' = [arena_dim EXCEPT ![r] = OtherDimensions]
  /\ is_in_world' = [is_in_world EXCEPT ![r] = TRUE]
  /\ op' = Op("other.add_robot", r)
  /\ IF ~ IsInBounds(pos[r], arena_dim'[r])
     THEN /\ result' = "ValueError"
          /\ calls' = <<>>
          /\ add_raised' = TRUE
          /\ UNCHANGED <<environment, init_calls>>
     ELSE /\ environment' = [environment EXCEPT ![r] = 0]
          /\ init_calls' = [init_calls EXCEPT ![r] = @ + 1]
          /\ calls' = <<InitCall(r)>>
          /\ result' = "ok"
          /\ UNCHANGED add_raised
  /\ UNCHANGED <<constructed, pos, tick, tx_message, comm_range, move_cmd, world_robots,
                 world_tick, world_environment, tagged_pos, returned,
                 message_vars, allow_collisions, last_tag, payload,
                 robot_color, id, logger_vars>>

\* World.add_robot on a robot that was not bound to the World before
AddRobot(r) == AddRobotUpTo(r, MaxInitCalls)

\* World.add_robot, also on a robot that is in the World already
AddRobotAgain(r) == AddRobotUpTo(r, MaxRebinds)

\* World.add_environment without the loop that hands the new environment
\* to the robots
AddEnvironmentNoRebind ==
  /\ world_environment < MaxEnvironments
  /\ world_environment' = world_environment + 1
  /\ op' = Op("add_environment", "None")
  /\ result' = "ok"
  /\ calls' = <<>>
  /\ UNCHANGED <<constructed, pos, arena_dim, is_in_world, tick, tx_message, init_calls,
                 comm_range, move_cmd, world_robots, world_tick, tagged_pos,
                 add_raised, returned, message_vars, environment,
                 allow_collisions, last_tag,
                 payload, ext_vars>>

\* World.add_environment: a new ImageEnvironment replaces the World's and
\* is handed to every robot of the group
AddEnvironment ==
  /\ world_environment < MaxEnvironments
  /\ world_environment' = world_environment + 1
  /\ environment' = [r \in Robots |->
                       IF r \in GetRobots THEN world_environment'
                       ELSE environment[r]]
  /\ op' = Op("add_environment", "None")
  /\ result' = "ok"
  /\ calls' = <<>>
  /\ UNCHANGED <<constructed, pos, arena_dim, is_in_world, tick, tx_message, init_calls,
                 comm_range, move_cmd, world_robots, world_tick, tagged_pos,
                 add_raised, returned, message_vars, allow_collisions,
                 last_tag,
                 payload, ext_vars>>

\* what indexing a numpy axis of length n with i selects: i, i + n for a
\* negative i down to -n, and nothing (IndexError, here -1) otherwise
NumpyIndex(i, n) ==
  IF 0 <= i /\ i < n THEN i
  ELSE IF -n <= i /\ i < 0 THEN i + n
  ELSE -1

\* the test of World.tag on a color that is not None
IsColor(color) ==
  /\ Len(color) = 3
  /\ \A k \in 1 .. Len(color) : 0 <= color[k] /\ color[k] <= 255

\* World.tag clearing, for None, the whole row of the buffer that the
\* position is on
TagEffectClearRow(tp, p, color) ==
  IF color = NoColor
  THEN LET y == NumpyIndex(p[2], GridHeight)
       IN IF NumpyIndex(p[1], GridWidth) = -1 \/ y = -1
          THEN [result |-> "IndexError", tagged_pos |-> tp]
          ELSE [result |-> "ok",
                tagged_pos |-> [c \in Cells |->
                                  IF c[2] = y THEN Untagged ELSE tp[c]]]
  ELSE IF IsColor(color)
       THEN IF /\ 0 <= p[1] /\ p[1] < GridWidth
               /\ 0 <= p[2] /\ p[2] < GridHeight
            THEN [result |-> "ok",
                  tagged_pos |-> [tp EXCEPT ![p] = color \o <<255>>]]
            ELSE [result |-> "ValueError", tagged_pos |-> tp]
       ELSE [result |-> "ValueError", tagged_pos |-> tp]

\* World.tag on the overlay buffer tp: the buffer it leaves and whether it
\* returned or raised
TagEffect(tp, p, color) ==
  IF color = NoColor
  THEN LET x == NumpyIndex(p[1], GridWidth)
           y == NumpyIndex(p[2], GridHeight)
       IN IF x = -1 \/ y = -1
          THEN [result |-> "IndexError", tagged_pos |-> tp]
          ELSE [result |-> "ok",
                tagged_pos |-> [tp EXCEPT ![<<x, y>>] = Untagged]]
  ELSE IF IsColor(color)
       THEN IF /\ 0 <= p[1] /\ p[1] < GridWidth
               /\ 0 <= p[2] /\ p[2] < GridHeight
            THEN [result |-> "ok",
                  tagged_pos |-> [tp EXCEPT ![p] = color \o <<255>>]]
            ELSE [result |-> "ValueError", tagged_pos |-> tp]
       ELSE [result |-> "ValueError", tagged_pos |-> tp]

\* for each cell, whether the last tag call that was made on that cell and
\* returned had a color: as the call tag(p, color) with the given outcome
\* leaves it
LastTag(lt, p, color, outcome) ==
  IF p \in Cells /\ outcome = "ok"
  THEN [lt EXCEPT ![p] = (color # NoColor)]
  ELSE lt

\* a call of World.tag
Tag(p, color) ==
  /\ op' = OpAt("tag", "None", p, color)
  /\ calls' = <<>>
  /\ \E t \in {TagEffect(tagged_pos, p, color)} :
       /\ result' = t.result
       /\ tagged_pos' = t.tagged_pos
       /\ last_tag' = LastTag(last_tag, p, color, t.result)
  /\ UNCHANGED <<constructed, robot_vars, world_robots, world_tick, world_environment,
                 add_raised, returned, message_vars, allow_collisions,
                 payload, ext_vars>>

\* whether Robot.add_to_world has given r the attribute _world: it is set
\* on the line before init() is called
HasWorld(r) == init_calls[r] > 0

\* sample(pos, tag) arguments: None (the robot's own position), a cell and
\* positions outside the grid
SamplePositions == {NoneValue, <<0, 0>>, <<GridWidth, 0>>, <<-1, 0>>}

\* Robot.sample
Sample(r, p, tag) ==
  /\ r \in constructed
  /\ op' = OpAt("sample", r, p, tag)
  /\ calls' = <<>>
  /\ LET at == IF p = NoneValue THEN GetPos([pos |-> pos], r) ELSE p
     IN IF tag # NoColor /\ ~ HasWorld(r)
        THEN /\ result' = "AttributeError"
             /\ returned' = NoReturn
             /\ UNCHANGED <<tagged_pos, last_tag>>
        ELSE \E t \in {IF tag # NoColor THEN TagEffect(tagged_pos, at, tag)
                       ELSE [result |-> "ok", tagged_pos |-> tagged_pos]} :
               /\ result' = t.result
               /\ tagged_pos' = t.tagged_pos
               /\ last_tag' = IF tag # NoColor
                              THEN LastTag(last_tag, at, tag, t.result)
                              ELSE last_tag
               /\ returned' = IF t.result = "ok"
                              THEN EnvironmentGet(environment[r], at)
                              ELSE NoReturn
  /\ UNCHANGED <<constructed, robot_vars, world_robots, world_tick, world_environment,
                 add_raised, message_vars, allow_collisions,
                 payload, ext_vars>>

\* Message(tx_id, content, rx_type)
NewMessage(tx_id, c, rx_type) ==
  /\ Len(messages) < MaxMessages
  /\ op' = [name |-> "Message", robot |-> "None", tx_id |-> tx_id,
            content |-> c, rx_type |-> rx_type]
  /\ calls' = <<>>
  /\ \E m \in {MessageInit(messages, dicts, tx_id, c, rx_type)} :
       /\ result' = m.result
       /\ messages' = m.messages
       /\ dicts' = m.dicts
  /\ UNCHANGED <<constructed, robot_vars, world_robots, world_tick, world_environment,
                 tagged_pos, add_raised, returned, allow_collisions, last_tag,
                 payload, ext_vars>>

\* Message.set on the m-th Message object
MessageSet(m, key, value) ==
  /\ op' = [name |-> "set", robot |-> "None", message |-> m, key |-> key,
            value |-> value]
  /\ calls' = <<>>
  /\ \E e \in {MessageSetEffect(messages, dicts, m, key, value)} :
       /\ result' = e.result
       /\ dicts' = e.dicts
  /\ UNCHANGED <<constructed, robot_vars, world_robots, world_tick, world_environment,
                 tagged_pos, add_raised, returned, messages,
                 allow_collisions, last_tag,
                 payload, ext_vars>>

\* World.count_tags
CountTags == Cardinality({c \in Cells : tagged_pos[c][4] # 0})

\* a call of World.count_tags
CountTagsCall ==
  /\ op' = Op("count_tags", "None")
  /\ result' = "ok"
  /\ calls' = <<>>
  /\ UNCHANGED <<constructed, robot_vars, world_robots, world_tick, world_environment,
                 tagged_pos, add_raised, returned, message_vars,
                 allow_collisions, last_tag,
                 payload, ext_vars>>

\* the simulation engine: robots join the World and the World steps
Next ==
  \/ Step
  \/ \E r \in Robots : AddRobot(r)

\* every operation of the World
NextWorld ==
  \/ Step
  \/ \E r \in Robots : AddRobot(r)
  \/ AddEnvironment
  \/ \E p \in TagPositions, color \in TagColors : Tag(p, color)
  \/ CountTagsCall

\* binding: robots join the World, once or again, the World gets
\* environments, and the World steps
NextBind ==
  \/ Step
  \/ \E r \in Robots : AddRobotAgain(r)
  \/ AddEnvironment

\* sensing: robots join the World, the World steps and gets environments,
\* and robots sample positions
NextSense ==
  \/ Step
  \/ \E r \in Robots : AddRobot(r)
  \/ AddEnvironment
  \/ \E r \in Robots, p \in SamplePositions, tag \in TagColors :
       Sample(r, p, tag)

\* two GridRobots in one World
NextGrid ==
  \/ Step
  \/ \E r \in Robots : AddRobot(r)

\* the outgoing slots of two robots over the steps
NextSlot ==
  \/ StepRecorded
  \/ \E r \in Robots : AddRobot(r)

\* two Worlds that are given the same robots
NextTwo ==
  \/ Step
  \/ \E r \in Robots : AddRobot(r)
  \/ \E r \in Robots : AddRobotOther(r)

\* one sender and the receivers of its message
NextShare ==
  \/ StepShared
  \/ \E r \in Robots : AddRobot(r)

\* two GridRobots whose callbacks may fail
NextFault ==
  \/ StepFaulty
  \/ \E r \in Robots : AddRobot(r)

\* the Message objects a program makes and sets
NextMessage ==
  \/ \E tx_id \in TxIds, c \in ContentArgs(messages), rx_type \in RxTypeArgs :
       NewMessage(tx_id, c, rx_type)
  \/ \E m \in DOMAIN messages, a \in SetArgs :
       MessageSet(m, a[1], a[2])

Spec == Init /\ [][Next]_vars

SpecWorld == InitWorld /\ [][NextWorld]_vars

SpecBind == InitBind /\ [][NextBind]_vars

SpecSense == InitWorld /\ [][NextSense]_vars

SpecGrid == InitGrid /\ [][NextGrid]_vars

SpecSlot == InitSlot /\ [][NextSlot]_vars

SpecShare == InitShare /\ [][NextShare]_vars

SpecTwo == InitBind /\ [][NextTwo]_vars

SpecFault == InitFault /\ [][NextFault]_vars

SpecMessage == InitMessage /\ [][NextMessage]_vars


\* ================================================================ properties
\* the calls of the most recent operation to the callback fn
CallsTo(fn) == {i \in DOMAIN calls : calls[i].fn = fn}

\* the receive_msg calls that handed a message of tx to rx
Deliveries(tx, rx) ==
  {i \in CallsTo("receive_msg") : calls[i].robot = rx /\ calls[i].peer = tx}

\* the cell that the _move call on r was given
TargetOf(log, r) ==
  LET i == CHOOSE i \in DOMAIN log : log[i].fn = "_move" /\ log[i].robot = r
  IN log[i].pos

\* the position in the log of the only call of r to fn, 0 if there is not
\* exactly one
IndexOf(log, fn, r) ==
  LET I == {i \in DOMAIN log : log[i].fn = fn /\ log[i].robot = r}
  IN IF Cardinality(I) = 1 THEN CHOOSE i \in I : TRUE ELSE 0

\* tx's message is not null, rx is of its receiver type, and both robots
\* accept the distance between their positions
Eligible(tx, rx) ==
  LET msg == tx_message[tx]
      d == Distance(pos[tx], pos[rx])
  IN /\ MsgBool(msg)
     /\ IsInstance(rx, msg.rx_type)
     /\ CommCriteria(rx, comm_range, d)
     /\ CommCriteria(tx, comm_range, d)

\* C1: after a step, every ordered pair (tx, rx) of distinct robots of the
\* World has exactly one receive_msg call, with tx's outgoing message and the
\* distance between the two, if the pair is eligible (message not null,
\* receiver of the message's receiver type, both comm_criteria true), and
\* none otherwise.
C1_DeliveryIffEligible ==
  op.name = "step" =>
    \A tx \in GetRobots : \A rx \in GetRobots \ {tx} :
      IF Eligible(tx, rx)
      THEN /\ Cardinality(Deliveries(tx, rx)) = 1
           /\ \A i \in Deliveries(tx, rx) :
                /\ calls[i].msg = tx_message[tx]
                /\ calls[i].dist = Distance(pos[tx], pos[rx])
      ELSE Deliveries(tx, rx) = {}

\* a step that delivered a message to one robot, refused another pair only
\* because the receiver's criterion failed, and a third because of its type
C1_Witness ==
  /\ op.name = "step"
  /\ \E tx \in GetRobots : \E rx \in GetRobots \ {tx} :
       Eligible(tx, rx) /\ Deliveries(tx, rx) # {}
  /\ \E tx \in GetRobots : \E rx \in GetRobots \ {tx} :
       /\ MsgBool(tx_message[tx])
       /\ IsInstance(rx, tx_message[tx].rx_type)
       /\ CommCriteria(tx, comm_range, Distance(pos[tx], pos[rx]))
       /\ ~ CommCriteria(rx, comm_range, Distance(pos[tx], pos[rx]))
  /\ \E tx \in GetRobots : \E rx \in GetRobots \ {tx} :
       /\ MsgBool(tx_message[tx])
       /\ ~ IsInstance(rx, tx_message[tx].rx_type)

\* C2: as long as no add_robot call has raised, every robot of the World is
\* on a cell of the grid, in every state (before and after every step).
C2_RobotsInBounds ==
  ~ add_raised => \A r \in GetRobots : pos[r] \in Cells

\* a step, no add_robot having raised, in which a robot asked for a cell
\* outside the grid
C2_Witness ==
  /\ ~ add_raised
  /\ op.name = "step"
  /\ \E i \in CallsTo("_move") : calls[i].pos \notin Cells

\* C3: get_time() is 0 for a new World, a step adds exactly 1 to it, and no
\* other operation of the World changes it.
C3_TickCountsSteps ==
  /\ GetTime = 0
  /\ [][IF op'.name = "step" THEN world_tick' = world_tick + 1
        ELSE world_tick' = world_tick]_vars

\* the World has stepped and then tagged a cell
C3_Witness ==
  /\ GetTime > 0
  /\ op.name = "tag"
  /\ result = "ok"
  /\ CountTags > 0
  /\ world_environment > 0
  /\ GetRobots # {}

C5_UpdatesBeforeCommunication ==
  op.name = "step" =>
    /\ \A i \in CallsTo("loop") \cup CallsTo("move") \cup CallsTo("_move") :
         \A j \in CallsTo("comm_criteria") \cup CallsTo("receive_msg")
                    \cup CallsTo("msg_received") : i < j
    /\ \A j \in CallsTo("comm_criteria") \cup CallsTo("receive_msg") :
         calls[j].dist = Distance(pos[calls[j].robot], pos[calls[j].peer])
    /\ \A j \in CallsTo("receive_msg") :
         calls[j].msg = tx_message[calls[j].peer]

\* the first step of a World that holds the GridRobot and the TestRobot,
\* both added where they were constructed, 2 cells apart: the GridRobot,
\* whose range is 1, received the message the TestRobot set in this step
\* after the TestRobot moved onto its cell
C5_Witness ==
  /\ op.name = "step"
  /\ ~ add_raised
  /\ world_tick = 1
  /\ tick["r1"] = 1
  /\ tick["r2"] = 1
  /\ comm_range["r1"] = 1
  /\ Deliveries("r2", "r1") # {}
  /\ \A i \in Deliveries("r2", "r1") : calls[i].dist = 0

\* C6 as stated: in the update of a robot move() is called before loop(),
\* and _move after loop().
C6_MoveBeforeLoop ==
  op.name = "step" =>
    \A r \in GetRobots :
      /\ IndexOf(calls, "move", r) # 0
      /\ IndexOf(calls, "move", r) < IndexOf(calls, "loop", r)
      /\ IndexOf(calls, "loop", r) < IndexOf(calls, "_move", r)

\* GridRobot.move on a robot at p whose direction is cmd
GridTarget(p, cmd) ==
  CASE cmd = UP    -> <<p[1], p[2] - 1>>
    [] cmd = DOWN  -> <<p[1], p[2] + 1>>
    [] cmd = RIGHT -> <<p[1] + 1, p[2]>>
    [] cmd = LEFT  -> <<p[1] - 1, p[2]>>
    [] OTHER       -> p

\* C6 as amended: in the update of a robot loop() is called first, then
\* move(), then _move; so the cell a GridRobot asks for is the one next to
\* its position before the step in the direction it has after its loop().
C6_LoopThenMoveThenCommit ==
  [][op'.name = "step" =>
       \A r \in GetRobots :
         /\ IndexOf(calls', "loop", r) # 0
         /\ IndexOf(calls', "loop", r) < IndexOf(calls', "move", r)
         /\ IndexOf(calls', "move", r) < IndexOf(calls', "_move", r)
         /\ IsGridRobot(r) =>
              TargetOf(calls', r) = GridTarget(pos[r], move_cmd'[r])]_vars

\* the first update of the GridRobot, constructed at (0, 0) with direction
\* STAY: its loop() set the direction RIGHT and the same update moved it
C6_Witness ==
  /\ op.name = "step"
  /\ ~ add_raised
  /\ tick["r1"] = 1
  /\ move_cmd["r1"] = RIGHT
  /\ pos["r1"] = <<1, 0>>

\* C7: no step calls comm_criteria, receive_msg or msg_received for a pair
\* made of one robot twice.
C7_NoSelfDelivery ==
  op.name = "step" =>
    \A i \in CallsTo("comm_criteria") \cup CallsTo("receive_msg")
               \cup CallsTo("msg_received") :
      calls[i].robot # calls[i].peer

\* a step in which a robot that is of the receiver type of its own message,
\* and accepts the distance 0, had its message delivered to another robot
C7_Witness ==
  /\ op.name = "step"
  /\ \E r \in GetRobots :
       /\ MsgBool(tx_message[r])
       /\ IsInstance(r, tx_message[r].rx_type)
       /\ CommCriteria(r, comm_range, 0)
       /\ \E rx \in GetRobots \ {r} : Deliveries(r, rx) # {}

\* C8: a step at whose communication phase the outgoing message of every
\* robot of the World is Message() calls neither receive_msg nor
\* msg_received.
C8_NullMessagesNoCalls ==
  (op.name = "step" /\ \A r \in GetRobots : tx_message[r] = NullMessage) =>
    CallsTo("receive_msg") \cup CallsTo("msg_received") = {}

\* a step of a World of three robots, all with the null message, two of
\* them on one cell, one of these having set Message() after a message
C8_Witness ==
  /\ op.name = "step"
  /\ GetRobots = constructed
  /\ \A r \in GetRobots : tx_message[r] = NullMessage /\ ~ MsgBool(tx_message[r])
  /\ pos["r1"] = pos["r2"]
  /\ world_tick = 2
  /\ tick["r2"] = 2

\* C9: in the calls of a step every receive_msg call is directly followed
\* by the msg_received call on the sender of that message, and every
\* msg_received call directly follows the receive_msg call of its pair; so
\* each sender gets one msg_received per delivery of its message.
C9_AckFollowsDelivery ==
  op.name = "step" =>
    /\ \A i \in CallsTo("receive_msg") :
         /\ i + 1 \in CallsTo("msg_received")
         /\ calls[i + 1].robot = calls[i].peer
         /\ calls[i + 1].peer = calls[i].robot
    /\ \A j \in CallsTo("msg_received") :
         /\ j - 1 \in CallsTo("receive_msg")
         /\ calls[j - 1].robot = calls[j].peer
         /\ calls[j - 1].peer = calls[j].robot
    /\ \A tx \in GetRobots :
         Cardinality({j \in CallsTo("msg_received") : calls[j].robot = tx})
           = Cardinality({i \in CallsTo("receive_msg") : calls[i].peer = tx})

\* a step in which the message of one sender was received by two robots
\* and the message of another by one, a third robot having sent nothing
C9_Witness ==
  /\ op.name = "step"
  /\ GetRobots = constructed
  /\ Cardinality({j \in CallsTo("msg_received") : calls[j].robot = "r1"}) = 2
  /\ Cardinality({j \in CallsTo("msg_received") : calls[j].robot = "r2"}) = 1
  /\ Cardinality(CallsTo("receive_msg")) = 3

\* C10: add_robot(r) raises ValueError exactly when r is not on a cell of
\* the grid; it then calls no init() and leaves every robot where it was.
C10_AddRobotRaisesIffOutside ==
  [][op'.name = "add_robot" =>
       /\ result' = "ValueError" <=> pos[op'.robot] \notin Cells
       /\ result' \in {"ok", "ValueError"}
       /\ result' = "ValueError" =>
            /\ init_calls' = init_calls
            /\ calls' = <<>>
            /\ pos' = pos
       /\ result' = "ok" =>
            /\ init_calls'[op'.robot] = init_calls[op'.robot] + 1
            /\ pos' = pos]_vars

\* add_robot has just raised for a robot that is right of the grid, which
\* was never initialised and still is where it was constructed
C10_Witness ==
  /\ op.name = "add_robot"
  /\ result = "ValueError"
  /\ pos[op.robot] = <<GridWidth, 0>>
  /\ init_calls[op.robot] = 0
  /\ calls = <<>>

\* C11: an add_robot(r) that raises leaves the robots of the World as they
\* were, r not among them, and a step calls no callback of a robot that no
\* add_robot call has bound and delivers no message to or from one.
C11_RaisingAddLeavesWorldUnchanged ==
  [][/\ op'.name = "add_robot" /\ result' = "ValueError" =>
          /\ world_robots' = world_robots
          /\ op'.robot \notin SeqToSet(world_robots')
     /\ op'.name = "step" =>
          \A i \in DOMAIN calls' :
            /\ init_calls'[calls'[i].robot] > 0
            /\ calls'[i].peer # "None" => init_calls'[calls'[i].peer] > 0]_vars

\* C12: no init() call is made at construction; whatever add_robot and
\* step calls follow, add_robot on a robot of the World included, no robot
\* has more than one init() call, a robot that add_robot has just bound has
\* exactly one, and no other operation calls init().
C12_InitExactlyOnce ==
  /\ \A r \in Robots : init_calls[r] = 0
  /\ [][/\ \A r \in Robots : init_calls'[r] <= 1
        /\ op'.name = "add_robot" /\ result' = "ok" =>
             init_calls'[op'.robot] = 1
        /\ op'.name # "add_robot" => init_calls' = init_calls]_vars

\* C13: as long as no add_robot call has raised, every robot of the World
\* holds the Environment that get_environment() returns, in whatever order
\* add_robot and add_environment were called.
C13_RobotsHoldCurrentEnvironment ==
  ~ add_raised => \A r \in GetRobots : environment[r] = GetEnvironment

\* both robots are in the World and hold its second ImageEnvironment: the
\* GridRobot was added before an add_environment call, and the HubRobot
\* has just been added, after the last one
C13_Witness ==
  /\ ~ add_raised
  /\ world_robots = <<"r1", "r3">>
  /\ GetEnvironment = MaxEnvironments
  /\ op = Op("add_robot", "r3")
  /\ tick["r1"] > 0
  /\ \A r \in GetRobots : environment[r] = MaxEnvironments

\* the position that the most recent sample call read
SampledAt == IF op.pos = NoneValue THEN pos[op.robot] ELSE op.pos

\* C14: a sample call without a tag, made by a robot of the World, returns
\* None when the position is not a cell of the grid, whether the World has
\* its null Environment or an ImageEnvironment, and returns (0, 0, 0) only
\* for a cell of the grid.
C14_SampleOutsideIsNoData ==
  op.name = "sample" /\ op.color = NoColor /\ HasWorld(op.robot) =>
    /\ result = "ok"
    /\ SampledAt \notin Cells => returned = NoneValue
    /\ returned = <<0, 0, 0>> => SampledAt \in Cells

\* C15: a sample call with a color as tag, made by a robot of the World on
\* a position that is not a cell of the grid, returns None, does not raise
\* and leaves the overlay buffer as it was.
C15_SampleTagOutsideReturnsNone ==
  [][(/\ op'.name = "sample"
      /\ IsColor(op'.color)
      /\ HasWorld(op'.robot)
      /\ SampledAt' \notin Cells) =>
       /\ result' = "ok"
       /\ returned' = NoneValue
       /\ tagged_pos' = tagged_pos]_vars

\* C16: a tag call on a position that is not a cell of the grid raises
\* ValueError and leaves the overlay buffer as it was, for a color and for
\* None alike.
C16_TagOutsideRaises ==
  [][op'.name = "tag" /\ op'.pos \notin Cells =>
       /\ result' = "ValueError"
       /\ tagged_pos' = tagged_pos]_vars

\* C17: a tag call on a cell p of the grid leaves every other cell of the
\* overlay buffer as it was; with a color it leaves p tagged with that
\* color, with None it leaves p untagged, and the whole buffer as it was if
\* p was not tagged.
C17_TagChangesOnlyItsCell ==
  [][op'.name = "tag" /\ op'.pos \in Cells =>
       /\ \A q \in Cells \ {op'.pos} : tagged_pos'[q] = tagged_pos[q]
       /\ IsColor(op'.color) =>
            /\ result' = "ok"
            /\ tagged_pos'[op'.pos] = op'.color \o <<255>>
       /\ op'.color = NoColor =>
            /\ result' = "ok"
            /\ tagged_pos'[op'.pos] = Untagged
            /\ tagged_pos[op'.pos][4] = 0 => tagged_pos' = tagged_pos]_vars

\* the tag of cell (0, 0) has just been cleared while the other cell that
\* was tagged keeps its color
C17_Witness ==
  /\ op = OpAt("tag", "None", <<0, 0>>, NoColor)
  /\ result = "ok"
  /\ tagged_pos[<<0, 0>>] = Untagged
  /\ tagged_pos[<<GridWidth - 1, 0>>] = <<10, 20, 30, 255>>
  /\ CountTags = 1

\* a Message(...) call without arguments, or with the defaults written out
NoArguments(o) ==
  /\ o.name = "Message"
  /\ o.tx_id = "None"
  /\ o.content.kind = "omitted"
  /\ o.rx_type = "Robot"

\* C18: Message() returns a null message: falsy, sender None, content
\* empty, whatever Message objects were made and set before.
C18_MessageNoArgumentsIsNull ==
  [][NoArguments(op') =>
       /\ result' = "ok"
       /\ Len(messages') = Len(messages) + 1
       /\ ~ MsgBool(messages'[Len(messages')])
       /\ Sender(messages', Len(messages')) = "None"
       /\ MessageGet(messages', dicts', Len(messages')) = EmptyDict]_vars

\* C19: a set call on one Message object leaves what get() returns on
\* every other Message object as it was, unless the two were made from the
\* same dict that a caller passed as content.
C19_SetChangesOnlyItsMessage ==
  [][op'.name = "set" =>
       \A m \in DOMAIN messages \ {op'.message} :
         ~ (/\ messages[m].arg # 0
            /\ messages[m].arg = messages[op'.message].arg) =>
           MessageGet(messages', dicts', m) = MessageGet(messages, dicts, m)]_vars

\* C20: Message(tx_id, content, rx_type) raises TypeError, and makes no
\* Message object, when rx_type is no subclass of Robot or content is no
\* dict whose keys are all strings, whatever the other arguments are.
C20_InvalidArgumentsRaiseTypeError ==
  [][(/\ op'.name = "Message"
      /\ \/ ~ IsSubclassOfRobot(op'.rx_type)
         \/ ~ IsDict(op'.content)
         \/ ~ AllStrKeys(ItemsOf(dicts, op'.content))) =>
       /\ result' = "TypeError"
       /\ messages' = messages]_vars

\* C21: set on a null message raises ValueError and changes no Message
\* object and no dict; a null message is falsy, has sender None and empty
\* content in every state; and no operation changes whether a Message
\* object is null, or its sender.
C21_NullMessageStaysNull ==
  /\ [](\A m \in DOMAIN messages :
          ~ MsgBool(messages[m]) =>
            /\ Sender(messages, m) = "None"
            /\ MessageGet(messages, dicts, m) = EmptyDict)
  /\ [][/\ (op'.name = "set" /\ ~ MsgBool(messages[op'.message])) =>
             /\ result' = "ValueError"
             /\ messages' = messages
             /\ dicts' = dicts
        /\ \A m \in DOMAIN messages :
             /\ m \in DOMAIN messages'
             /\ MsgBool(messages'[m]) = MsgBool(messages[m])
             /\ Sender(messages', m) = Sender(messages, m)]_vars

\* a set call on a null message has raised, a Message object that is not
\* null holding content that a set call gave it
C21_Witness ==
  /\ op.name = "set"
  /\ result = "ValueError"
  /\ ~ MsgBool(messages[op.message])
  /\ \E m \in DOMAIN messages :
       /\ MsgBool(messages[m])
       /\ Item("k", TRUE, 2) \in MessageGet(messages, dicts, m)

\* C22: every key of the content of every Message object is a string,
\* whatever Message objects were made and whatever set calls were made.
C22_ContentKeysAreStrings ==
  \A m \in DOMAIN messages : AllStrKeys(MessageGet(messages, dicts, m))

\* C23: two GridRobots of one comm_range r, one holding a message for the
\* class of the other, exchange it in a step exactly when the Euclidean
\* distance of their cells is at most r.
C23_DeliveredExactlyWithinRange ==
  op.name = "step" =>
    \A tx \in GetRobots, rx \in GetRobots :
      (/\ tx # rx
       /\ IsGridRobot(tx) /\ IsGridRobot(rx)
       /\ comm_range[tx] = comm_range[rx]
       /\ MsgBool(tx_message[tx])
       /\ IsInstance(rx, tx_message[tx].rx_type)) =>
        (Deliveries(tx, rx) # {} <=>
           Distance(pos[tx], pos[rx]) <= Sq(comm_range[tx]))

\* C24: no operation but a step changes an outgoing slot; a step changes
\* the slot of no robot outside the World and of no robot whose loop() did
\* not call set_tx_message; and every message that is in a slot after the
\* updates of a step is delivered in that step, once to each eligible
\* receiver and to no other.
C24_SlotKeptAndBroadcast ==
  [][/\ op'.name # "step" => tx_message' = tx_message
     /\ op'.name = "step" =>
          /\ \A r \in Robots :
               (r \notin GetRobots \/ r \notin op'.set_msg) =>
                 tx_message'[r] = tx_message[r]
          /\ \A tx \in GetRobots, rx \in GetRobots :
               tx # rx =>
                 /\ Cardinality(Deliveries(tx, rx)') =
                      IF Eligible(tx, rx)' THEN 1 ELSE 0
                 /\ \A i \in Deliveries(tx, rx)' :
                      calls'[i].msg = tx_message'[tx]]_vars

\* the second step has delivered a message that the loop() of its sender
\* set in the first step and did not set in the second
C24_Witness ==
  /\ op.name = "step"
  /\ world_tick = 2
  /\ \E tx \in GetRobots, rx \in GetRobots :
       /\ tx \notin op.set_msg
       /\ tick[tx] = 2
       /\ MsgBool(tx_message[tx])
       /\ Deliveries(tx, rx) # {}

\* C25: every robot that add_robot has put in the World has get_tick()
\* equal to World.get_time(), whenever it was added.
C25_RobotTickIsWorldTime ==
  \A r \in GetRobots : HasWorld(r) => tick[r] = GetTime

\* C26: in a World made with allow_collisions=False no two robots that
\* add_robot has put in it are on one cell after a step.
C26_NoTwoRobotsOnOneCell ==
  (~ allow_collisions /\ op.name = "step") =>
    \A a \in GetRobots, b \in GetRobots :
      (a # b /\ HasWorld(a) /\ HasWorld(b)) => pos[a] # pos[b]

\* C27: a sample call made by a robot of the World on a cell of the grid,
\* or without a position on the cell the robot is on, returns (0, 0, 0)
\* when the World has no environment and the pixel of that cell when it has
\* an ImageEnvironment; and a step changes the value of no cell, for the
\* World and for every robot.
C27_SampleReturnsCellValue ==
  /\ []((/\ op.name = "sample"
         /\ op.color = NoColor \/ IsColor(op.color)
         /\ HasWorld(op.robot)
         /\ SampledAt \in Cells) =>
          /\ result = "ok"
          /\ returned = IF GetEnvironment = 0 THEN <<0, 0, 0>>
                        ELSE GetPixel(GetEnvironment, SampledAt))
  /\ [][op'.name = "step" =>
          /\ GetEnvironment' = GetEnvironment
          /\ \A r \in Robots, c \in Cells :
               EnvironmentGet(environment'[r], c) =
                 EnvironmentGet(environment[r], c)]_vars

\* a robot that steps have moved has sampled, without a position, the cell
\* it is on, in a World that has an ImageEnvironment
C27_Witness ==
  /\ op.name = "sample"
  /\ op.pos = NoneValue
  /\ op.color = NoColor
  /\ HasWorld(op.robot)
  /\ tick[op.robot] > 0
  /\ GetEnvironment > 0
  /\ pos[op.robot] \in Cells
  /\ pos[op.robot][1] # pos[op.robot][2]
  /\ returned = GetPixel(GetEnvironment, pos[op.robot])

\* C28: count_tags() is the number of cells of the grid whose most recent
\* tag call had a color rather than None, and lies between 0 and
\* GridWidth * GridHeight.
C28_CountTagsIsTaggedCells ==
  /\ CountTags = Cardinality({c \in Cells : last_tag[c]})
  /\ 0 <= CountTags /\ CountTags <= GridWidth * GridHeight

\* C29: when a callback of a robot raises in a step, no robot's position,
\* no robot's tick and not the World's tick has changed once the exception
\* has reached the caller; when the step returns, every robot of the World
\* has counted a tick and so has the World.
C29_StepIsAllOrNothing ==
  [][op'.name = "step" =>
       /\ result' = "Exception" =>
            /\ pos' = pos
            /\ tick' = tick
            /\ GetTime' = GetTime
       /\ result' = "ok" =>
            /\ \A r \in GetRobots : tick'[r] = tick[r] + 1
            /\ GetTime' = GetTime + 1]_vars

\* C30: in a step in which no callback raises, every robot being one that
\* add_robot has put in the World and the outgoing slot of one of them
\* holding a message whose receiver type is no class, every message of
\* another robot is delivered once to each of its eligible receivers.
C30_MalformedMessageStopsNoOther ==
  (/\ op.name = "step"
   /\ result # "Exception"
   /\ \A r \in GetRobots : HasWorld(r)
   /\ \E r \in GetRobots : tx_message[r] = MalformedMessage(r)) =>
    \A tx \in GetRobots, rx \in GetRobots :
      (/\ tx # rx
       /\ MsgBool(tx_message[tx])
       /\ IsClass(tx_message[tx].rx_type)
       /\ Eligible(tx, rx)) =>
        Cardinality(Deliveries(tx, rx)) = 1

\* C31: after a step, every receive_msg call of the step was handed the
\* content that the loop() of the sender built its message with, and the
\* message in the outgoing slot of every robot has the content it was
\* built with, whatever the receive_msg callbacks did with the message
\* they were handed.
C31_ReceiversGetWhatSenderSet ==
  op.name = "step" =>
    /\ \A i \in DOMAIN op.observed :
         op.observed[i].content = ContentOf(tx_message[op.observed[i].tx])
    /\ \A r \in GetRobots : payload[r] = ContentOf(tx_message[r])

\* C32: in every state in which the World can step, and for every choice
\* of the robots' callbacks, a step that takes the robots in any other
\* order leaves the same positions, ticks, directions and outgoing
\* messages and makes the same deliveries.
C32_StepIsOrderIndependent ==
  (world_tick < MaxTick /\ \A r \in GetRobots : tick[r] < MaxTick) =>
    \A c1 \in StepChoices("r1"), c2 \in StepChoices("r2"),
       c3 \in StepChoices("r3"), c4 \in StepChoices("r4") :
      LET ch == [r \in Robots |->
                   CASE r = "r1" -> c1 [] r = "r2" -> c2
                     [] r = "r3" -> c3 [] OTHER -> c4]
          S == [pos |-> pos, tick |-> tick, tx_message |-> tx_message,
                move_cmd |-> move_cmd]
          a == StepBody(S, world_robots, arena_dim, comm_range, ch)
      IN \A g \in Orders(world_robots) :
           LET b == StepBody(S, g, arena_dim, comm_range, ch)
           IN /\ b.S = a.S
              /\ DeliveriesOf(b.calls) = DeliveriesOf(a.calls)

\* three robots are in the World, not in the order of their names, one
\* step has made deliveries to two of them and another step can follow
C32_Witness ==
  /\ op.name = "step"
  /\ world_tick < MaxTick
  /\ Len(world_robots) = 3
  /\ world_robots[1] # "r1"
  /\ \A r \in GetRobots : HasWorld(r)
  /\ Cardinality({calls[i].robot : i \in CallsTo("receive_msg")}) >= 2

\* C33: every robot that add_robot has put in the World has a
\* get_world_dim() equal to the World's get_dimensions(), whatever World it
\* was added to afterwards.
C33_RobotsHoldWorldDimensions ==
  \A r \in GetRobots : HasWorld(r) => arena_dim[r] = GetDimensions

\* C34: the World's group holds no robot twice; add_robot adds its robot
\* to the robots of the World and leaves the group as it is when the robot
\* is in it already; no other operation changes the group; and a step
\* calls loop() once on every robot of the World and delivers the message
\* of a sender to a receiver at most once.
C34_GroupIsGrowingSet ==
  /\ [](\A i \in DOMAIN world_robots, j \in DOMAIN world_robots :
          world_robots[i] = world_robots[j] => i = j)
  /\ [][/\ op'.name = "add_robot" =>
             /\ GetRobots' = GetRobots \cup {op'.robot}
             /\ op'.robot \in GetRobots => world_robots' = world_robots
        /\ op'.name # "add_robot" => world_robots' = world_robots
        /\ op'.name = "step" =>
             \A r \in GetRobots :
               /\ Cardinality({i \in DOMAIN calls' :
                                 calls'[i].fn = "loop" /\ calls'[i].robot = r})
                    = 1
               /\ \A rx \in GetRobots :
                    Cardinality(Deliveries(r, rx)') <= 1]_vars

\* a step of a World of two robots has delivered the message of a robot
\* that add_robot was called on twice
C34_Witness ==
  /\ op.name = "step"
  /\ init_calls["r1"] = 2
  /\ Len(world_robots) = 2
  /\ Deliveries("r1", "r3") # {}

ColorArgs == {<<10, 20, 30>>, <<0, 0, 255>>, <<0, 0, 256>>, <<-1, 0, 0>>}

\* the test of Robot.set_color: every channel is in [0, 255]
IsRGB(color) == \A i \in 1 .. 3 : 0 <= color[i] /\ color[i] <= 255

\* Robot.set_color that assigns the color before it tests the channels
SetColorAssignFirst(old, color) ==
  [color |-> color,
   result |-> IF IsRGB(color) THEN "ok" ELSE "ValueError"]

\* Robot.set_color: the color the robot has afterwards, and the result
SetColorEffect(old, color) ==
  IF IsRGB(color)
  THEN [color |-> color, result |-> "ok"]
  ELSE [color |-> old, result |-> "ValueError"]

\* Robot.set_color(r, g, b) on a constructed robot
SetColor(r, color) ==
  /\ r \in constructed
  /\ \E e \in {SetColorEffect(robot_color[r], color)} :
       /\ robot_color' = [robot_color EXCEPT ![r] = e.color]
       /\ result' = e.result
  /\ op' = [name |-> "set_color", robot |-> r, color |-> color]
  /\ calls' = <<>>
  /\ UNCHANGED <<robot_vars, world_robots, world_tick, world_environment,
                 tagged_pos, add_raised, returned, message_vars,
                 allow_collisions, last_tag, payload, other_robots, id,
                 logger_vars>>

\* colors: robots join the World, the World steps, and robots are given
\* colors
NextColor ==
  \/ Step
  \/ \E r \in Robots : AddRobot(r)
  \/ \E r \in Robots, color \in ColorArgs : SetColor(r, color)

SpecColor == InitBind /\ [][NextColor]_vars

AggregatorNames == {"green", "time", "params"}

\* an aggregator function that reduces the robots of the World to a single
\* value (a length 1 array): the number of robots
CountAgg(group) == <<Len(group)>>

\* dict.__setitem__ on Logger._aggregators: a new key goes last, a key
\* the dict has keeps its place
DictSetKey(keys, name) ==
  IF \E i \in 1 .. Len(keys) : keys[i] = name THEN keys ELSE Append(keys, name)

\* h5py create_dataset(dset_name, shape=(0, ...)) on the log file: the
\* file afterwards and the result; a name the file has is refused
CreateDataset(file, dset_name) ==
  IF dset_name \in DOMAIN file \cup GroupNames
  THEN [file |-> file, result |-> "ValueError"]
  ELSE [file |-> [n \in DOMAIN file \cup {dset_name} |->
                    IF n \in DOMAIN file THEN file[n] ELSE <<>>],
        result |-> "ok"]

\* Logger.add_aggregator(name, func)
AddAggregator(name) ==
  /\ IF name \in ReservedNames
     THEN /\ result' = "ValueError"
          /\ op' = [name |-> "add_aggregator", robot |-> "None",
                    agg |-> name, runs |-> 0]
          /\ UNCHANGED <<log_file, aggregators>>
     ELSE /\ aggregators' = DictSetKey(aggregators, name)
          /\ op' = [name |-> "add_aggregator", robot |-> "None",
                    agg |-> name, runs |-> 1]
          /\ \E e \in {CreateDataset(log_file, TrialPath(name))} :
               /\ log_file' = e.file
               /\ result' = e.result
  /\ calls' = <<>>
  /\ UNCHANGED <<robot_vars, world_robots, world_tick, world_environment,
                 tagged_pos, add_raised, returned, message_vars,
                 allow_collisions, last_tag, payload, other_robots,
                 robot_color, id, params>>

\* the loop of Logger.log_state over Logger._aggregators, from the i-th
\* aggregator on: the file afterwards, the result, and how many aggregator
\* functions have run
RECURSIVE LogRows(_, _, _, _, _)
LogRows(file, names, i, group, runs) ==
  IF i > Len(names)
  THEN [file |-> file, result |-> "ok", runs |-> runs]
  ELSE LET agg_vals == CountAgg(group)
           dset_name == TrialPath(names[i])
       IN IF dset_name \in GroupNames
          THEN [file |-> file, result |-> "AttributeError", runs |-> runs + 1]
          ELSE IF dset_name \notin DOMAIN file
          THEN [file |-> file, result |-> "KeyError", runs |-> runs + 1]
          ELSE LogRows([file EXCEPT ![dset_name] =
                          Append(@, IF dset_name = TimeDsetName
                                    THEN agg_vals[1] ELSE agg_vals)],
                       names, i + 1, group, runs + 1)

\* Logger.log_state()
LogState ==
  /\ Len(log_file[TimeDsetName]) < MaxLogs
  /\ \E e \in {LogRows([log_file EXCEPT ![TimeDsetName] = Append(@, world_tick)],
                       aggregators, 1, world_robots, 0)} :
       /\ log_file' = e.file
       /\ result' = e.result
       /\ op' = [name |-> "log_state", robot |-> "None", runs |-> e.runs]
  /\ calls' = <<>>
  /\ UNCHANGED <<robot_vars, world_robots, world_tick, world_environment,
                 tagged_pos, add_raised, returned, message_vars,
                 allow_collisions, last_tag, payload, other_robots,
                 robot_color, id, aggregators, params>>

\* the keys of the configurations given to Logger.log_config, in the order
\* of ConfigParser.get().items()
Configs == {<<"name", "num_steps">>, <<"num_steps">>}

\* the exclude arguments given to Logger.log_config
Excludes == {{}, {"name"}}

\* Logger.log_param(name, val) for a str or int value: create_dataset on
\* os.path.join(Logger._params_group_name, name), which refuses a name the
\* params group has
LogParam(group, name) ==
  IF name \in group
  THEN [params |-> group, result |-> "ValueError"]
  ELSE [params |-> group \cup {name}, result |-> "ok"]

\* the loop of Logger.log_config over the items of the configuration, from
\* the i-th on
RECURSIVE LogParams(_, _, _)
LogParams(group, config, i) ==
  IF i > Len(config)
  THEN [params |-> group, result |-> "ok"]
  ELSE LET e == LogParam(group, config[i])
       IN IF e.result # "ok" THEN e ELSE LogParams(e.params, config, i + 1)

\* Logger.log_config(config, exclude)
LogConfig(config, exclude) ==
  /\ \E e \in {LogParams(params, config, 1)} :
       /\ params' = e.params
       /\ result' = e.result
  /\ op' = [name |-> "log_config", robot |-> "None", config |-> config,
            exclude |-> exclude]
  /\ calls' = <<>>
  /\ UNCHANGED <<robot_vars, world_robots, world_tick, world_environment,
                 tagged_pos, add_raised, returned, message_vars,
                 allow_collisions, last_tag, payload, other_robots,
                 robot_color, id, log_file, aggregators>>

\* logging: robots join the World, the World steps, and the Logger is
\* given aggregators and configurations and logs the state
NextLog ==
  \/ Step
  \/ \E r \in Robots : AddRobot(r)
  \/ \E name \in AggregatorNames : AddAggregator(name)
  \/ LogState
  \/ \E config \in Configs, exclude \in Excludes : LogConfig(config, exclude)

InitLog == Constructed({"r3"})

SpecLog == InitLog /\ [][NextLog]_vars

\* C37: a log_state call appends exactly one entry, the time of the World,
\* to the time dataset and exactly one row to the dataset of every
\* registered aggregator, running every aggregator once; an add_aggregator
\* call appends no row to any dataset (so the dataset of an aggregator
\* registered before the first log_state grows in step with the time
\* dataset).
C37_LogStateAppendsOneRowEach ==
  [][/\ op'.name = "log_state" =>
          /\ log_file'[TimeDsetName] = Append(log_file[TimeDsetName], world_tick)
          /\ op'.runs = Len(aggregators)
          /\ \A i \in 1 .. Len(aggregators) :
               /\ TrialPath(aggregators[i]) \in DOMAIN log_file
               /\ TrialPath(aggregators[i]) # TimeDsetName =>
                    Len(log_file'[TrialPath(aggregators[i])]) =
                      Len(log_file[TrialPath(aggregators[i])]) + 1
     /\ op'.name = "add_aggregator" =>
          /\ \A n \in DOMAIN log_file : log_file'[n] = log_file[n]
          /\ \A n \in DOMAIN log_file' \ DOMAIN log_file : log_file'[n] = <<>>]_vars

\* C38: a log_config call that returns has saved every key of the
\* configuration that exclude does not list, and whether it returns or
\* raises, it has saved no key that exclude lists.
C38_LogConfigLeavesOutExcluded ==
  [][op'.name = "log_config" =>
       /\ result' = "ok" =>
            params' = params \cup ({op'.config[i] : i \in 1 .. Len(op'.config)}
                                    \ op'.exclude)
       /\ (params' \ params) \cap op'.exclude = {}]_vars

\* identities: two robots constructed with whatever ids
\* random.getrandbits draws for them
InitId ==
  /\ ConstructedAny({"r1", "r3"}, CommRanges, {TRUE})
  /\ id \in [Robots -> IdValues \cup {NoId}]
  /\ \A r \in Robots : id[r] = NoId <=> r \notin {"r1", "r3"}

\* identities: robots join the World and the World steps
NextId ==
  \/ Step
  \/ \E r \in Robots : AddRobot(r)

SpecId == InitId /\ [][NextId]_vars

\* C39: any two distinct robots that add_robot has bound to the World have
\* different ids, and no add_robot call and no step changes the id of a
\* robot.
C39_IdsAreDistinctAndFixed ==
  /\ [](\A a \in GetRobots : \A b \in GetRobots \ {a} :
          (HasWorld(a) /\ HasWorld(b)) => id[a] # id[b])
  /\ [][id' = id]_vars

=============================================================================
